---- MODULE Spec2Model ----
(***************************************************************************)
(* A model of two files of RustPython:                                     *)
(*   common/src/cell.rs     PyMutex / PyRwLock, the synchronization cell   *)
(*                          with its two cfg(feature = "threading") forms; *)
(*   vm/src/obj/objbytes.rs the bytes built-in type.                       *)
(*                                                                         *)
(* Specifications:                                                         *)
(*   Spec       one cell, build mode and cell type chosen at start         *)
(*   FairSpec   Spec with the lock's fairness: a blocked call returns once  *)
(*              the lock stays free for it                                 *)
(*   PairSpec   one request sequence run against a threading cell and a    *)
(*              non-threading cell side by side                            *)
(*   BytesSpec  the bytes class: init, bytes_new and the comparisons       *)
(***************************************************************************)
EXTENDS Integers, Sequences, FiniteSets, Bags, TLC

VARIABLES
    threading,  \* cfg!(feature = "threading") of the build
    kind,       \* "mutex" (PyMutex) or "rwlock" (PyRwLock)
    cell,       \* the cell of Spec
    cellT,      \* PairSpec: the cell of the threading build
    cellS,      \* PairSpec: the cell of the non-threading build
    bytes_type, \* the bytes class's attribute table, filled by init
    objs,       \* the bag of PyBytes objects created so far, each its Vec<u8>
    res,        \* the outcome of the last call into objbytes.rs
    cells,      \* the Cell<usize> allocated so far, each its content
    iters,      \* the PyIteratorValue objects created so far
    adv         \* per thread, the advance of an iterator it is in the middle of

cellVars == <<threading, kind, cell>>
pairVars == <<cellT, cellS>>
bytesVars == <<bytes_type, objs, res>>
iterVars == <<cells, iters, adv>>
vars ==
    <<threading, kind, cell, cellT, cellS, bytes_type, objs, res, cells,
      iters, adv>>

----------------------------------------------------------------------------
(* Bounds *)

NumRequesters == 3
MaxValue == 1

MaxLen == 2
MaxObjs == 2

Requesters == 1..NumRequesters
Values == 0..MaxValue
ExitPaths == {"return", "early_return", "failure"}

\* u8: 0 .. ByteLimit - 1
ByteLimit == 256
\* The bytes, and the integers that are no bytes, that the model draws from.
ByteSample == {0, ByteLimit - 1}
NotByteSample == {-1, ByteLimit}

----------------------------------------------------------------------------
(* common/src/cell.rs *)

\* The lock behind a cell. threading: parking_lot's Mutex / RwLock, as the
\* exclusive bit and the count of shared holders. Otherwise: RefCell's borrow
\* flag (0 unused, n > 0 shared borrows, -1 mutably borrowed).
new_mutex(thr) ==
    IF thr THEN [locked |-> FALSE, readers |-> 0] ELSE [borrow |-> 0]

new_rwlock(thr) ==
    IF thr THEN [locked |-> FALSE, readers |-> 0] ELSE [borrow |-> 0]

\* Mutant: a lock() that does not wait for the holder.
lock_mutex_barging(thr, m) ==
    IF thr
    THEN [r |-> "granted", m |-> [m EXCEPT !.locked = TRUE]]
    ELSE IF m.borrow = 0
         THEN [r |-> "granted", m |-> [m EXCEPT !.borrow = -1]]
         ELSE [r |-> "panic", m |-> m]

\* m.lock() blocks the caller while the mutex is held; m.borrow_mut() panics
\* (BorrowMutError) while any borrow is alive.
lock_mutex(thr, m) ==
    IF thr
    THEN IF ~m.locked
         THEN [r |-> "granted", m |-> [m EXCEPT !.locked = TRUE]]
         ELSE [r |-> "blocked", m |-> m]
    ELSE IF m.borrow = 0
         THEN [r |-> "granted", m |-> [m EXCEPT !.borrow = -1]]
         ELSE [r |-> "panic", m |-> m]

\* Mutant: a non-threading read() that does not look at the borrow flag.
read_rwlock_unchecked(thr, m, queued) ==
    IF thr
    THEN IF ~m.locked /\ ~queued
         THEN [r |-> "granted", m |-> [m EXCEPT !.readers = @ + 1]]
         ELSE [r |-> "blocked", m |-> m]
    ELSE [r |-> "granted", m |-> m]

\* m.read() blocks while a writer holds the lock, and while a writer is queued
\* when the lock puts the reader behind it (queued); m.borrow() panics
\* (BorrowError) while the value is mutably borrowed.
read_rwlock(thr, m, queued) ==
    IF thr
    THEN IF ~m.locked /\ ~queued
         THEN [r |-> "granted", m |-> [m EXCEPT !.readers = @ + 1]]
         ELSE [r |-> "blocked", m |-> m]
    ELSE IF m.borrow >= 0
         THEN [r |-> "granted", m |-> [m EXCEPT !.borrow = @ + 1]]
         ELSE [r |-> "panic", m |-> m]

\* Mutant: a write() that waits for the writer only, not for the readers.
write_rwlock_ignoring_readers(thr, m) ==
    IF thr
    THEN IF ~m.locked
         THEN [r |-> "granted", m |-> [m EXCEPT !.locked = TRUE]]
         ELSE [r |-> "blocked", m |-> m]
    ELSE IF m.borrow = 0
         THEN [r |-> "granted", m |-> [m EXCEPT !.borrow = -1]]
         ELSE [r |-> "panic", m |-> m]

\* m.write() blocks while any holder is left; m.borrow_mut() as in lock_mutex.
write_rwlock(thr, m) ==
    IF thr
    THEN IF ~m.locked /\ m.readers = 0
         THEN [r |-> "granted", m |-> [m EXCEPT !.locked = TRUE]]
         ELSE [r |-> "blocked", m |-> m]
    ELSE IF m.borrow = 0
         THEN [r |-> "granted", m |-> [m EXCEPT !.borrow = -1]]
         ELSE [r |-> "panic", m |-> m]

\* Mutant: an exclusive guard of the threading build that is forgotten rather
\* than dropped (mem::forget): the lock stays taken.
drop_exclusive_leaked(thr, m) ==
    IF thr THEN m ELSE [m EXCEPT !.borrow = @ + 1]

\* The guard structs wrap the lock's own guard and have no Drop of their own:
\* the wrapped MutexGuard / RwLockWriteGuard / RefMut gives the lock back.
drop_exclusive(thr, m) ==
    IF thr THEN [m EXCEPT !.locked = FALSE] ELSE [m EXCEPT !.borrow = @ + 1]

\* Mutant: a read guard that is forgotten rather than dropped (mem::forget):
\* its shared hold is never given back.
drop_shared_leaked(thr, m) == m

\* The wrapped RwLockReadGuard / Ref gives one shared hold back.
drop_shared(thr, m) ==
    IF thr THEN [m EXCEPT !.readers = @ - 1] ELSE [m EXCEPT !.borrow = @ - 1]

NoGuard == [t \in Requesters |-> "none"]
NoCall ==
    [who |-> 0, call |-> "none", r |-> "none", conflict |-> FALSE,
     waited |-> FALSE]
NoExit == [who |-> 0, path |-> "none"]

\* PyMutex::new / PyRwLock::new: the cell owns value; no guard is alive.
\*   inner    the lock
\*   guard    per requester, the live guard it holds on this cell
\*   waiting  per requester, the call it is blocked in
\*   value    the T the cell owns
\*   out      the last lock()/read()/write() call and how it ended (waited:
\*            the caller was blocked in it before)
\*   panicked the thread of control is unwinding from a panic
\*   exit     the last scope that ended holding a guard, and how it ended
PyMutex_new(thr, v) ==
    [inner |-> new_mutex(thr), guard |-> NoGuard, waiting |-> NoGuard,
     value |-> v, out |-> NoCall, panicked |-> FALSE, exit |-> NoExit]

PyRwLock_new(thr, v) ==
    [inner |-> new_rwlock(thr), guard |-> NoGuard, waiting |-> NoGuard,
     value |-> v, out |-> NoCall, panicked |-> FALSE, exit |-> NoExit]

\* Whether a call by a new requester conflicts with a guard that is alive.
Conflicts(c, call) ==
    IF call = "read"
    THEN \E u \in Requesters : c.guard[u] = "exclusive"
    ELSE \E u \in Requesters : c.guard[u] # "none"

GuardOf(call) == IF call = "read" THEN "shared" ELSE "exclusive"

\* A writer is blocked in write().
WriterQueued(c) == \E u \in Requesters : c.waiting[u] = "write"

\* What the call does to the lock: the cfg-selected function.
Attempt(thr, c, call, queued) ==
    CASE call = "lock"  -> lock_mutex(thr, c.inner)
      [] call = "read"  -> read_rwlock(thr, c.inner, queued)
      [] call = "write" -> write_rwlock(thr, c.inner)

\* The call returns its guard, or leaves the caller blocked inside it, or
\* panics.
Finish(c, t, call, a) ==
    LET o == [who |-> t, call |-> call, r |-> a.r,
              conflict |-> Conflicts(c, call),
              waited |-> c.waiting[t] # "none"]
    IN  CASE a.r = "granted" ->
               [c EXCEPT !.inner = a.m, !.guard[t] = GuardOf(call),
                         !.waiting[t] = "none", !.out = o]
          [] a.r = "blocked" ->
               [c EXCEPT !.waiting[t] = call, !.out = o]
          [] a.r = "panic" ->
               [c EXCEPT !.panicked = TRUE, !.out = o]

\* PyMutex::lock: PyMutexGuard(lock_mutex(&self.0)).
PyMutex_lock(thr, c, t) ==
    Finish(c, t, "lock", Attempt(thr, c, "lock", FALSE))

\* PyRwLock::read: PyRwLockReadGuard(read_rwlock(&self.0)).
PyRwLock_read(thr, c, t, queued) ==
    Finish(c, t, "read", Attempt(thr, c, "read", queued /\ WriterQueued(c)))

\* PyRwLock::write: PyRwLockWriteGuard(write_rwlock(&self.0)).
PyRwLock_write(thr, c, t) ==
    Finish(c, t, "write", Attempt(thr, c, "write", FALSE))

\* A blocked call goes on once the lock lets it.
Resume(thr, c, t) ==
    Finish(c, t, c.waiting[t], Attempt(thr, c, c.waiting[t], FALSE))

\* DerefMut::deref_mut through an exclusive guard: the holder stores v.
deref_mut(c, v) == [c EXCEPT !.value = v]

\* The scope holding t's guard ends along path: the guard is dropped.
PyMutexGuard_drop(thr, c, t, path) ==
    [c EXCEPT !.inner = drop_exclusive(thr, c.inner), !.guard[t] = "none",
              !.exit = [who |-> t, path |-> path]]

PyRwLockReadGuard_drop(thr, c, t, path) ==
    [c EXCEPT !.inner = drop_shared(thr, c.inner), !.guard[t] = "none",
              !.exit = [who |-> t, path |-> path]]

PyRwLockWriteGuard_drop(thr, c, t, path) ==
    [c EXCEPT !.inner = drop_exclusive(thr, c.inner), !.guard[t] = "none",
              !.exit = [who |-> t, path |-> path]]

DropGuard(thr, k, c, t, path) ==
    CASE c.guard[t] = "shared" -> PyRwLockReadGuard_drop(thr, c, t, path)
      [] c.guard[t] = "exclusive" /\ k = "mutex" ->
             PyMutexGuard_drop(thr, c, t, path)
      [] c.guard[t] = "exclusive" /\ k = "rwlock" ->
             PyRwLockWriteGuard_drop(thr, c, t, path)

Idle(c, t) == c.guard[t] = "none" /\ c.waiting[t] = "none"

\* While a panic unwinds, the scopes only end.
PathsNow(c) == IF c.panicked THEN {"failure"} ELSE ExitPaths

----------------------------------------------------------------------------
(* Spec: one cell *)

\* No iterator exists and no thread is advancing one.
NoAdvance == [it |-> 0, position |-> 0]
InitIterIdle ==
    /\ cells = <<>>
    /\ iters = <<>>
    /\ adv = [t \in Requesters |-> NoAdvance]

InitBytesIdle ==
    /\ bytes_type = <<>>
    /\ objs = EmptyBag
    /\ res = [op |-> "none", kind |-> "none"]
    /\ InitIterIdle

InitCell ==
    /\ threading \in BOOLEAN
    /\ kind \in {"mutex", "rwlock"}
    /\ \E v \in Values :
         cell = IF kind = "mutex" THEN PyMutex_new(threading, v)
                                  ELSE PyRwLock_new(threading, v)

InitPairIdle ==
    /\ cellT = PyMutex_new(TRUE, 0)
    /\ cellS = PyMutex_new(FALSE, 0)

Init == InitCell /\ InitPairIdle /\ InitBytesIdle

Lock(t) ==
    /\ kind = "mutex" /\ ~cell.panicked /\ Idle(cell, t)
    /\ cell' = PyMutex_lock(threading, cell, t)
    /\ UNCHANGED <<threading, kind, pairVars, bytesVars, iterVars>>

Read(t) ==
    /\ kind = "rwlock" /\ ~cell.panicked /\ Idle(cell, t)
    /\ \E queued \in BOOLEAN : cell' = PyRwLock_read(threading, cell, t, queued)
    /\ UNCHANGED <<threading, kind, pairVars, bytesVars, iterVars>>

Write(t) ==
    /\ kind = "rwlock" /\ ~cell.panicked /\ Idle(cell, t)
    /\ cell' = PyRwLock_write(threading, cell, t)
    /\ UNCHANGED <<threading, kind, pairVars, bytesVars, iterVars>>

Wake(t) ==
    /\ cell.waiting[t] # "none"
    /\ Attempt(threading, cell, cell.waiting[t], FALSE).r = "granted"
    /\ cell' = Resume(threading, cell, t)
    /\ UNCHANGED <<threading, kind, pairVars, bytesVars, iterVars>>

Store(t) ==
    /\ cell.guard[t] = "exclusive" /\ ~cell.panicked
    /\ \E v \in Values : v # cell.value /\ cell' = deref_mut(cell, v)
    /\ UNCHANGED <<threading, kind, pairVars, bytesVars, iterVars>>

Release(t) ==
    /\ cell.guard[t] # "none"
    /\ \E path \in PathsNow(cell) :
         cell' = DropGuard(threading, kind, cell, t, path)
    /\ UNCHANGED <<threading, kind, pairVars, bytesVars, iterVars>>

Next ==
    \E t \in Requesters :
        Lock(t) \/ Read(t) \/ Write(t) \/ Wake(t) \/ Store(t) \/ Release(t)

Spec == Init /\ [][Next]_vars

\* A blocked call returns once the lock is free for it; nothing else is
\* promised of the order in which the lock serves its callers.
FairSpec == Spec /\ \A t \in Requesters : WF_vars(Wake(t))

----------------------------------------------------------------------------
(* PairSpec: the same calls and scope ends against both builds *)

InitCellIdle ==
    /\ threading = TRUE
    /\ cell = PyMutex_new(TRUE, 0)

InitPair ==
    /\ kind \in {"mutex", "rwlock"}
    /\ \E v \in Values :
         /\ cellT = IF kind = "mutex" THEN PyMutex_new(TRUE, v)
                                      ELSE PyRwLock_new(TRUE, v)
         /\ cellS = IF kind = "mutex" THEN PyMutex_new(FALSE, v)
                                      ELSE PyRwLock_new(FALSE, v)

PairInit == InitCellIdle /\ InitPair /\ InitBytesIdle

\* The run goes on while neither build has stopped a caller: a panic ends the
\* non-threading run, and a blocked caller has left the common sequence.
PairRunning ==
    /\ ~cellS.panicked
    /\ \A t \in Requesters : cellT.waiting[t] = "none"

PairIdle(t) == Idle(cellT, t) /\ Idle(cellS, t)

PairLock(t) ==
    /\ kind = "mutex" /\ PairRunning /\ PairIdle(t)
    /\ cellT' = PyMutex_lock(TRUE, cellT, t)
    /\ cellS' = PyMutex_lock(FALSE, cellS, t)
    /\ UNCHANGED <<cellVars, bytesVars, iterVars>>

PairRead(t) ==
    /\ kind = "rwlock" /\ PairRunning /\ PairIdle(t)
    /\ \E queued \in BOOLEAN :
         /\ cellT' = PyRwLock_read(TRUE, cellT, t, queued)
         /\ cellS' = PyRwLock_read(FALSE, cellS, t, queued)
    /\ UNCHANGED <<cellVars, bytesVars, iterVars>>

PairWrite(t) ==
    /\ kind = "rwlock" /\ PairRunning /\ PairIdle(t)
    /\ cellT' = PyRwLock_write(TRUE, cellT, t)
    /\ cellS' = PyRwLock_write(FALSE, cellS, t)
    /\ UNCHANGED <<cellVars, bytesVars, iterVars>>

PairStore(t) ==
    /\ PairRunning
    /\ cellT.guard[t] = "exclusive" /\ cellS.guard[t] = "exclusive"
    /\ \E v \in Values :
         /\ v # cellT.value
         /\ cellT' = deref_mut(cellT, v)
         /\ cellS' = deref_mut(cellS, v)
    /\ UNCHANGED <<cellVars, bytesVars, iterVars>>

PairRelease(t) ==
    /\ PairRunning
    /\ cellT.guard[t] # "none" /\ cellS.guard[t] # "none"
    /\ \E path \in ExitPaths :
         /\ cellT' = DropGuard(TRUE, kind, cellT, t, path)
         /\ cellS' = DropGuard(FALSE, kind, cellS, t, path)
    /\ UNCHANGED <<cellVars, bytesVars, iterVars>>

PairNext ==
    \E t \in Requesters :
        PairLock(t) \/ PairRead(t) \/ PairWrite(t) \/ PairStore(t)
            \/ PairRelease(t)

PairSpec == PairInit /\ [][PairNext]_vars

----------------------------------------------------------------------------
(* Claims about the synchronization cell *)

Exclusive(c) == {t \in Requesters : c.guard[t] = "exclusive"}
Shared(c) == {t \in Requesters : c.guard[t] = "shared"}

\* C1: in both build modes, in every reachable state a cell has at most one
\* live exclusive guard, and a live exclusive guard never coexists with a live
\* shared guard (any number of shared guards alone is allowed).
C1_MutualExclusion ==
    /\ Cardinality(Exclusive(cell)) <= 1
    /\ Exclusive(cell) # {} => Shared(cell) = {}

\* C1 witness: two shared guards are alive and a write() has been refused its
\* guard (the caller is blocked, or the call panicked).
C1_Witness ==
    /\ Cardinality(Shared(cell)) >= 2
    /\ cell.out.call = "write" /\ cell.out.r # "granted"
    /\ cell.guard[cell.out.who] = "none"

\* C2: in the non-threading build a call that conflicts with a live guard
\* ends by handing the caller a ConflictingBorrowError value, never by
\* aborting, and leaves the live guards and the cell's value as they were.
C2_ConflictIsAnErrorValue ==
    [][(~threading /\ cell'.out # cell.out /\ cell'.out.conflict)
         => /\ cell'.out.r = "ConflictingBorrowError"
            /\ ~cell'.panicked
            /\ cell'.guard = cell.guard
            /\ cell'.value = cell.value]_vars

ExclusiveCall == IF kind = "mutex" THEN "lock" ELSE "write"

\* C4: when a scope holding a guard ends, on any exit path, the cell records
\* no live guard for that holder any more; and whenever no guard is alive, a
\* lock()/write() on the cell is granted, in either build mode.
C4_ReleasedOnEveryExit ==
    /\ [][\A t \in Requesters :
            Release(t) => /\ cell'.guard[t] = "none"
                          /\ cell'.exit.who = t
                          /\ cell'.exit.path \in ExitPaths]_vars
    /\ []((\A t \in Requesters : cell.guard[t] = "none")
            => Attempt(threading, cell, ExclusiveCall, FALSE).r = "granted")

\* C4 witness: a scope that held a shared guard ended by a propagated
\* failure, and a write() made afterwards by another caller was granted.
C4_Witness ==
    /\ cell.exit.path = "failure" /\ ~cell.panicked
    /\ cell.out.call = "write" /\ cell.out.r = "granted"
    /\ cell.out.who # cell.exit.who
    /\ cell.guard[cell.out.who] = "exclusive"
    /\ cell.guard[cell.exit.who] = "none"

----------------------------------------------------------------------------
(* vm/src/obj/objbytes.rs *)

\* An object: its class and, for a bytes object, the Vec<u8> of its payload
\* (for the others, the digits of some payload of their own).
PyBytes_new(data) == [cls |-> "bytes", value |-> data]
NonBuffers == {[cls |-> "int", value |-> <<0>>], [cls |-> "str", value |-> <<>>]}

\* objtype::isinstance(obj, &vm.ctx.bytes_type())
isinstance_bytes(obj) == obj.cls = "bytes"

\* get_value: the payload's value.
get_value(obj) == obj.value

\* A class registered without its hash.
extend_class_without_hash ==
    [n \in {"__new__", "__eq__", "__lt__", "__le__", "__gt__", "__ge__",
            "__repr__", "__len__", "__iter__", "__doc__"} |->
        CASE n = "__new__"  -> "bytes_new"
          [] n = "__eq__"   -> "eq"
          [] n = "__lt__"   -> "lt"
          [] n = "__le__"   -> "le"
          [] n = "__gt__"   -> "gt"
          [] n = "__ge__"   -> "ge"
          [] n = "__repr__" -> "repr"
          [] n = "__len__"  -> "len"
          [] n = "__iter__" -> "iter"
          [] n = "__doc__"  -> "bytes_doc"]

\* init: extend_class! binds each name to its function (new_rustfunc) and
\* __doc__ to the documentation string.
extend_class ==
    [n \in {"__new__", "__eq__", "__lt__", "__le__", "__gt__", "__ge__",
            "__hash__", "__repr__", "__len__", "__iter__", "__doc__"} |->
        CASE n = "__new__"  -> "bytes_new"
          [] n = "__eq__"   -> "eq"
          [] n = "__lt__"   -> "lt"
          [] n = "__le__"   -> "le"
          [] n = "__gt__"   -> "gt"
          [] n = "__ge__"   -> "ge"
          [] n = "__hash__" -> "hash"
          [] n = "__repr__" -> "repr"
          [] n = "__len__"  -> "len"
          [] n = "__iter__" -> "iter"
          [] n = "__doc__"  -> "bytes_doc"]

\* vm.extract_elements(&ival)?: the elements an iterable produces, or the
\* failure for an argument that is not iterable.
extract_elements(ival) ==
    IF ival.iterable THEN [ok |-> TRUE, elements |-> ival.items]
                     ELSE [ok |-> FALSE, elements |-> <<>>]

\* objint::to_int(vm, elem, 10)?: the integer of an element, or the failure
\* for an element that is no number.
to_int(elem) ==
    IF elem.cls = "int" THEN [ok |-> TRUE, v |-> elem.v]
                        ELSE [ok |-> FALSE, v |-> 0]

\* BigInt::to_u8: Some(v) for 0 <= v < 256, None otherwise.
to_u8(v) ==
    IF 0 <= v /\ v < ByteLimit THEN [some |-> TRUE, v |-> v]
                               ELSE [some |-> FALSE, v |-> 0]

\* The loop of bytes_new from element i on, data_bytes being what is pushed
\* so far: `?` returns to_int's failure, unwrap() panics on None.
RECURSIVE data_bytes_from(_, _, _)
data_bytes_from(elements, i, data_bytes) ==
    IF i > Len(elements)
    THEN [kind |-> "ok", data |-> data_bytes]
    ELSE LET v == to_int(elements[i])
         IN  IF ~v.ok
             THEN [kind |-> "err", err |-> "TypeError"]
             ELSE IF ~to_u8(v.v).some
                  THEN [kind |-> "panic"]
                  ELSE data_bytes_from(elements, i + 1,
                                       Append(data_bytes, to_u8(v.v).v))

\* bytes_new up to its last line: the value of the new object, or how the
\* call ended without one.
bytes_new(val_option) ==
    IF val_option.present
    THEN LET elements == extract_elements(val_option)
         IN  IF ~elements.ok
             THEN [kind |-> "err", err |-> "TypeError"]
             ELSE data_bytes_from(elements.elements, 1, <<>>)
    ELSE [kind |-> "ok", data |-> <<>>]

\* arg_check!(vm, args, required = [(a, Some(vm.ctx.bytes_type())), (b, None)])
arg_check2(args) == Len(args) = 2 /\ isinstance_bytes(args[1])

\* Vec<u8> == Vec<u8>: the same length and the same byte at every index.
vec_eq(l, r) ==
    /\ Len(l) = Len(r)
    /\ \A i \in 1..Len(l) : l[i] = r[i]

Min(x, y) == IF x <= y THEN x ELSE y

\* Mutant: the bytes compared as i8, so that 255 (-1) sorts before 0.
RECURSIVE vec_cmp_signed(_, _, _)
vec_cmp_signed(l, r, i) ==
    LET s(b) == IF b >= 128 THEN b - ByteLimit ELSE b
    IN  IF i > Min(Len(l), Len(r))
        THEN IF Len(l) < Len(r) THEN "Less"
             ELSE IF Len(l) > Len(r) THEN "Greater" ELSE "Equal"
        ELSE IF s(l[i]) < s(r[i]) THEN "Less"
             ELSE IF s(l[i]) > s(r[i]) THEN "Greater"
             ELSE vec_cmp_signed(l, r, i + 1)

\* Vec<u8>'s Ord from index i on: the first unequal pair of bytes decides,
\* and the lengths do when one is a prefix of the other.
RECURSIVE vec_cmp(_, _, _)
vec_cmp(l, r, i) ==
    IF i > Min(Len(l), Len(r))
    THEN IF Len(l) < Len(r) THEN "Less"
         ELSE IF Len(l) > Len(r) THEN "Greater" ELSE "Equal"
    ELSE IF l[i] < r[i] THEN "Less"
         ELSE IF l[i] > r[i] THEN "Greater"
         ELSE vec_cmp(l, r, i + 1)

Ok(op, args, b) == [op |-> op, args |-> args, kind |-> "ok", bool |-> b]
ArgErr(op, args) ==
    [op |-> op, args |-> args, kind |-> "err", err |-> "TypeError",
     msg |-> "arg_check"]
\* vm.new_type_error(format!("Cannot compare {} and {} using '<using>'", a, b))
CmpErr(op, args, using) ==
    [op |-> op, args |-> args, kind |-> "err", err |-> "TypeError",
     msg |-> "Cannot compare", a |-> args[1], b |-> args[2], using |-> using]

\* Mutant: an eq that compares the lengths only.
eq_by_len(args) ==
    IF ~arg_check2(args) THEN ArgErr("eq", args)
    ELSE Ok("eq", args,
            IF isinstance_bytes(args[2])
            THEN Len(get_value(args[1])) = Len(get_value(args[2]))
            ELSE FALSE)

\* PyBytesRef::eq
eq(args) ==
    IF ~arg_check2(args) THEN ArgErr("eq", args)
    ELSE Ok("eq", args,
            IF isinstance_bytes(args[2])
            THEN vec_eq(get_value(args[1]), get_value(args[2]))
            ELSE FALSE)

\* PyBytesRef::ge
ge(args) ==
    IF ~arg_check2(args) THEN ArgErr("ge", args)
    ELSE IF isinstance_bytes(args[2])
         THEN Ok("ge", args,
                 vec_cmp(get_value(args[1]), get_value(args[2]), 1)
                     \in {"Greater", "Equal"})
         ELSE CmpErr("ge", args, ">")

\* PyBytesRef::gt
gt(args) ==
    IF ~arg_check2(args) THEN ArgErr("gt", args)
    ELSE IF isinstance_bytes(args[2])
         THEN Ok("gt", args,
                 vec_cmp(get_value(args[1]), get_value(args[2]), 1)
                     = "Greater")
         ELSE CmpErr("gt", args, ">=")

\* Mutant: an le that answers for a non-bytes operand, as eq does.
le_total(args) ==
    IF ~arg_check2(args) THEN ArgErr("le", args)
    ELSE IF isinstance_bytes(args[2])
         THEN Ok("le", args,
                 vec_cmp(get_value(args[1]), get_value(args[2]), 1)
                     \in {"Less", "Equal"})
         ELSE Ok("le", args, FALSE)

\* PyBytesRef::le
le(args) ==
    IF ~arg_check2(args) THEN ArgErr("le", args)
    ELSE IF isinstance_bytes(args[2])
         THEN Ok("le", args,
                 vec_cmp(get_value(args[1]), get_value(args[2]), 1)
                     \in {"Less", "Equal"})
         ELSE CmpErr("le", args, "<")

\* PyBytesRef::lt
lt(args) ==
    IF ~arg_check2(args) THEN ArgErr("lt", args)
    ELSE IF isinstance_bytes(args[2])
         THEN Ok("lt", args,
                 vec_cmp(get_value(args[1]), get_value(args[2]), 1) = "Less")
         ELSE CmpErr("lt", args, "<=")

\* arg_check!(vm, args, required = [(a, Some(vm.ctx.bytes_type()))])
arg_check1(args) == Len(args) = 1 /\ isinstance_bytes(args[1])

OkInt(op, args, n) == [op |-> op, args |-> args, kind |-> "ok", int |-> n]
OkStr(op, args, str) == [op |-> op, args |-> args, kind |-> "ok", str |-> str]
Panic(op, args) == [op |-> op, args |-> args, kind |-> "panic"]

\* A length that counts the bytes before the first zero byte only.
len_until_nul(args) ==
    IF ~arg_check1(args) THEN ArgErr("len", args)
    ELSE LET byte_vec == get_value(args[1])
             nul == {i \in 1..Len(byte_vec) : byte_vec[i] = 0}
         IN OkInt("len", args,
                  IF nul = {} THEN Len(byte_vec)
                  ELSE (CHOOSE i \in nul : \A j \in nul : i <= j) - 1)

\* PyBytesRef::len
len(args) ==
    IF ~arg_check1(args) THEN ArgErr("len", args)
    ELSE LET byte_vec == get_value(args[1])
         IN OkInt("len", args, Len(byte_vec))

\* A hasher that keeps the state the previous hash call left in it.
DefaultHasher_reused ==
    IF res.op = "hash" /\ res.kind = "ok" THEN res.int ELSE 0

\* DefaultHasher::new(): a hasher in its start state, the keys both zero.
DefaultHasher_new == 0

\* The hasher's result is a u64; the model keeps its low HashBits bits.
HashBits == 16

\* Hasher::write of one word followed by the mixing of the state: a stand-in
\* for the rounds of the hasher, which like them depends on the state and the
\* word only.
write(hasher, word) == (hasher * 31 + word + 1) % (2 ^ HashBits)

\* Vec<u8>::hash: the length is written first, then every byte in order.
RECURSIVE write_bytes(_, _, _)
write_bytes(hasher, data, i) ==
    IF i > Len(data) THEN hasher
    ELSE write_bytes(write(hasher, data[i]), data, i + 1)

\* A hash that reads the payload of whatever its first argument is.
hash_unchecked(args) ==
    IF args = <<>> THEN ArgErr("hash", args)
    ELSE LET data == get_value(args[1])
             hasher == write_bytes(write(DefaultHasher_new, Len(data)), data, 1)
         IN OkInt("hash", args, hasher)

\* PyBytesRef::hash
hash(args) ==
    IF ~arg_check1(args) THEN ArgErr("hash", args)
    ELSE LET data == get_value(args[1])
             hasher == write_bytes(write(DefaultHasher_new, Len(data)), data, 1)
         IN OkInt("hash", args, hasher)

\* The width of the character a first byte announces, 0 for a byte that can
\* start no character.
utf8_char_width(b) ==
    IF b < 128 THEN 1
    ELSE IF b \in 194..223 THEN 2
    ELSE IF b \in 224..239 THEN 3
    ELSE IF b \in 240..244 THEN 4
    ELSE 0

\* The values the byte after the first may take: overlong forms, surrogates
\* and code points above 0x10FFFF are no text.
SecondByte(first) ==
    CASE first = 224 -> 160..191
      [] first = 237 -> 128..159
      [] first = 240 -> 144..191
      [] first = 244 -> 128..143
      [] OTHER -> 128..191

\* A decoding that takes every byte for a character of its own.
RECURSIVE from_latin1(_, _, _)
from_latin1(v, i, chars) ==
    IF i > Len(v) THEN [ok |-> TRUE, chars |-> chars]
    ELSE from_latin1(v, i + 1, Append(chars, v[i]))

\* String::from_utf8 from byte i on: the characters of v, or the error of the
\* first byte that is no text.
RECURSIVE from_utf8(_, _, _)
from_utf8(v, i, chars) ==
    IF i > Len(v) THEN [ok |-> TRUE, chars |-> chars]
    ELSE LET w == utf8_char_width(v[i])
             Cont(k) == v[i + k] \in 128..191
         IN IF w = 0 \/ i + w - 1 > Len(v) THEN [ok |-> FALSE, chars |-> <<>>]
            ELSE IF w = 1 THEN from_utf8(v, i + 1, Append(chars, v[i]))
            ELSE IF v[i + 1] \notin SecondByte(v[i])
                 THEN [ok |-> FALSE, chars |-> <<>>]
            ELSE IF w = 2
                 THEN from_utf8(v, i + 2,
                          Append(chars, (v[i] - 192) * 64 + (v[i + 1] - 128)))
            ELSE IF ~Cont(2) THEN [ok |-> FALSE, chars |-> <<>>]
            ELSE IF w = 3
                 THEN from_utf8(v, i + 3,
                          Append(chars, (v[i] - 224) * 4096
                                        + (v[i + 1] - 128) * 64
                                        + (v[i + 2] - 128)))
            ELSE IF ~Cont(3) THEN [ok |-> FALSE, chars |-> <<>>]
            ELSE from_utf8(v, i + 4,
                     Append(chars, (v[i] - 240) * 262144
                                   + (v[i + 1] - 128) * 4096
                                   + (v[i + 2] - 128) * 64
                                   + (v[i + 3] - 128)))

\* PyBytesRef::repr: the text of the bytes between b' and '; the unwrap
\* panics when the bytes are no text.
repr(args) ==
    IF ~arg_check1(args) THEN ArgErr("repr", args)
    ELSE LET data == from_utf8(get_value(args[1]), 1, <<>>)
         IN IF data.ok
            THEN OkStr("repr", args, <<98, 39>> \o data.chars \o <<39>>)
            ELSE Panic("repr", args)

\* The function a name of the class is bound to, applied to args.
Invoke(f, args) ==
    CASE f = "eq" -> eq(args)
      [] f = "ge" -> ge(args)
      [] f = "gt" -> gt(args)
      [] f = "le" -> le(args)
      [] f = "lt" -> lt(args)
      [] f = "hash" -> hash(args)
      [] f = "repr" -> repr(args)
      [] f = "len" -> len(args)

----------------------------------------------------------------------------
(* BytesSpec: the bytes class *)

\* The elements an iterable may produce: bytes, integers that are no bytes,
\* and an object that is no number.
IntElems == {[cls |-> "int", v |-> n] : n \in ByteSample \cup NotByteSample}
Elems == IntElems \cup {[cls |-> "NoneType", v |-> 0]}

SeqsUpTo(S, n) == UNION {[1..k -> S] : k \in 0..n}

\* OptionalArg<PyObjectRef>: missing, not iterable, or an iterable.
ValOptions ==
    {[present |-> FALSE, iterable |-> FALSE, items |-> <<>>],
     [present |-> TRUE, iterable |-> FALSE, items |-> <<>>]}
    \cup {[present |-> TRUE, iterable |-> TRUE, items |-> s] :
             s \in SeqsUpTo(Elems, MaxLen)}

\* What an operand of a comparison may be: a bytes object made so far, or an
\* object of another class.
Operands == {PyBytes_new(data) : data \in BagToSet(objs)} \cup NonBuffers

CompareNames == {"__eq__", "__lt__", "__le__", "__gt__", "__ge__"}

BytesInit ==
    /\ InitCellIdle /\ kind = "mutex" /\ InitPairIdle
    /\ bytes_type = <<>>
    /\ objs = EmptyBag
    /\ res = [op |-> "none", kind |-> "none"]
    /\ InitIterIdle

\* A panic takes the interpreter down with it.
Alive == res.kind # "panic"

ClassInit ==
    /\ bytes_type = <<>>
    /\ bytes_type' = extend_class
    /\ UNCHANGED <<cellVars, pairVars, iterVars, objs, res>>

\* bytes(...): __new__ of the class; into_ref_with_type makes the object.
NewFrom(options) ==
    /\ Alive /\ "__new__" \in DOMAIN bytes_type
    /\ bytes_type["__new__"] = "bytes_new"
    /\ BagCardinality(objs) + Len(iters) < MaxObjs
    /\ \E val_option \in options :
         LET value == bytes_new(val_option)
         IN  /\ res' = [op |-> "bytes_new", arg |-> val_option,
                        kind |-> value.kind]
             /\ objs' = IF value.kind = "ok"
                        THEN objs (+) SetToBag({value.data})
                        ELSE objs
    /\ UNCHANGED <<cellVars, pairVars, iterVars, bytes_type>>

New == NewFrom(ValOptions)

\* a == b, a < b, ...: the function the class binds to the operator's name.
Compare ==
    /\ Alive
    /\ \E name \in CompareNames \cap DOMAIN bytes_type :
         \E a \in Operands, b \in Operands :
            res' = Invoke(bytes_type[name], <<a, b>>)
    /\ UNCHANGED <<cellVars, pairVars, iterVars, bytes_type, objs>>

UnaryNames == {"__hash__", "__repr__", "__len__"}

\* A call whose len takes the bytes out of its receiver instead of copying
\* them.
CallWith_taking(name, args) ==
    /\ Alive
    /\ name \in DOMAIN bytes_type
    /\ res' = Invoke(bytes_type[name], args)
    /\ objs' = IF res'.op = "len" /\ res'.kind = "ok"
               THEN (objs (-) SetToBag({get_value(args[1])}))
                        (+) SetToBag({<<>>})
               ELSE objs
    /\ UNCHANGED <<cellVars, pairVars, iterVars, bytes_type>>

\* A call of the function the class binds to name.
CallWith(name, args) ==
    /\ Alive
    /\ name \in DOMAIN bytes_type
    /\ res' = Invoke(bytes_type[name], args)
    /\ UNCHANGED <<cellVars, pairVars, iterVars, bytes_type, objs>>

\* hash, repr or len of an object.
Call1 == \E name \in UnaryNames : \E a \in Operands : CallWith(name, <<a>>)

BytesNext == ClassInit \/ New \/ Compare \/ Call1

BytesSpec == BytesInit /\ [][BytesNext]_vars

----------------------------------------------------------------------------
(* CallSpec: every function of the class applied to argument lists of the
   required length and of one more and one less, over one bytes object whose
   content is drawn from bytes that are text, parts of text and no text *)

\* h, i, the two bytes of e-acute, and a byte no text contains.
TextSample == {104, 105, 195, 169, 255}

\* The length of the required list of the arg_check! of a function.
Required(name) == IF name \in CompareNames THEN 2 ELSE 1

ArgLists(n) == UNION {[1..k -> Operands] : k \in {n - 1, n, n + 1}}

\* The class is initialised and one bytes object has been constructed.
CallInit ==
    /\ InitCellIdle /\ kind = "mutex" /\ InitPairIdle /\ InitIterIdle
    /\ bytes_type = extend_class
    /\ \E data \in SeqsUpTo(TextSample, MaxLen) : objs = SetToBag({data})
    /\ res = [op |-> "none", kind |-> "none"]

Call ==
    \E name \in CompareNames \cup UnaryNames :
        \E args \in ArgLists(Required(name)) : CallWith(name, args)

CallSpec == CallInit /\ [][Call]_vars

----------------------------------------------------------------------------
(* Iterators over bytes objects *)

\* A cursor kept in a cell that exists already instead of in one of its own.
Cell_shared(value) == [cell |-> 1, value |-> value]

\* Cell::new(value): a cell of its own, the next one allocated.
Cell_new(value) == [cell |-> Len(cells) + 1, value |-> value]

\* An iterator whose cursor starts behind the first byte.
iter_from_one(obj) == [position |-> Cell_new(1), iterated_obj |-> obj]

\* PyBytesRef::iter
iter(obj) == [position |-> Cell_new(0), iterated_obj |-> obj]

\* The bytes an iterator runs over, and position.get().
Iterated(i) == get_value(iters[i].iterated_obj)
position_get(i) == cells[iters[i].position]

\* obj.__iter__() while fewer than room iterators exist. The iterator is
\* kept with the list of what it has yielded so far.
IterOn(room) ==
    /\ Alive
    /\ "__iter__" \in DOMAIN bytes_type
    /\ Len(iters) < room
    /\ \E data \in BagToSet(objs) :
          LET it == iter(PyBytes_new(data))
          IN /\ cells' = IF it.position.cell > Len(cells)
                         THEN Append(cells, it.position.value)
                         ELSE cells
             /\ iters' = Append(iters, [position |-> it.position.cell,
                                        iterated_obj |-> it.iterated_obj,
                                        out |-> <<>>])
             /\ res' = [op |-> "iter", args |-> <<it.iterated_obj>>,
                        kind |-> "ok", it |-> Len(iters) + 1]
    /\ UNCHANGED <<cellVars, pairVars, bytes_type, objs, adv>>

\* The rest of an advance of iterator i once the cursor has been read as p:
\* the byte at p is yielded and the cursor set to p + 1, or the iterator is
\* exhausted.
Yield(i, p) ==
    IF p < Len(Iterated(i))
    THEN /\ cells' = [cells EXCEPT ![iters[i].position] = p + 1]
         /\ iters' = [iters EXCEPT ![i].out =
                          Append(@, [index |-> p, value |-> Iterated(i)[p + 1]])]
         /\ res' = [op |-> "next", it |-> i, kind |-> "ok",
                    int |-> Iterated(i)[p + 1]]
    ELSE /\ res' = [op |-> "next", it |-> i, kind |-> "stop"]
         /\ UNCHANGED <<cells, iters>>

\* One advance of an iterator by the one thread of the interpreter.
Advance ==
    /\ Alive
    /\ \E i \in 1..Len(iters) : Yield(i, position_get(i))
    /\ UNCHANGED <<cellVars, pairVars, bytes_type, objs, adv>>

\* The class is initialised and one bytes object has been constructed.
IterInit ==
    /\ InitCellIdle /\ kind = "mutex" /\ InitPairIdle /\ InitIterIdle
    /\ bytes_type = extend_class
    /\ \E data \in SeqsUpTo(ByteSample, MaxLen) : objs = SetToBag({data})
    /\ res = [op |-> "none", kind |-> "none"]

\* IterSpec: up to MaxObjs iterators over one bytes object, one thread.
Iter == IterOn(MaxObjs)

IterNext == Iter \/ Advance

IterSpec == IterInit /\ [][IterNext]_vars

\* RaceSpec: the threads of a threading build advance the iterators; a
\* thread reads the cursor in one step and writes it in a later one. An
\* iterator is advanced no more once it has yielded more than its bytes.
Fetch(t) ==
    /\ adv[t] = NoAdvance
    /\ \E i \in 1..Len(iters) :
          /\ Len(iters[i].out) <= Len(Iterated(i))
          /\ adv' = [adv EXCEPT ![t] = [it |-> i, position |-> position_get(i)]]
    /\ UNCHANGED <<cellVars, pairVars, bytesVars, cells, iters>>

Put(t) ==
    /\ adv[t] # NoAdvance
    /\ Yield(adv[t].it, adv[t].position)
    /\ adv' = [adv EXCEPT ![t] = NoAdvance]
    /\ UNCHANGED <<cellVars, pairVars, bytes_type, objs>>

RaceNext == Iter \/ \E t \in Requesters : Fetch(t) \/ Put(t)

RaceSpec == IterInit /\ [][RaceNext]_vars

----------------------------------------------------------------------------
(* ProtoSpec: the whole protocol of the class, iterators included, over
   objects of up to MaxObjs in all whose content is shorter than MaxLen *)

ShortOptions == {o \in ValOptions : Len(o.items) < MaxLen}

NewShort == NewFrom(ShortOptions)

\* An iterator is made while the objects are fewer than MaxObjs in all.
IterInRoom == IterOn(MaxObjs - BagCardinality(objs))

ProtoNext ==
    ClassInit \/ NewShort \/ Compare \/ Call1 \/ IterInRoom \/ Advance

ProtoSpec == BytesInit /\ [][ProtoNext]_vars

----------------------------------------------------------------------------
(* Claims about the bytes class *)

\* An element that is not an integer in [0, 256).
NotAByte(elem) == ~(elem.cls = "int" /\ elem.v \in 0..(ByteLimit - 1))

\* C6: construction from an iterable with an element that is not an integer
\* in [0, 256) fails with an error returned to the caller, and creates no
\* bytes object.
C6_ConstructionAllOrNothing ==
    [][(res'.op = "bytes_new"
          /\ \E i \in 1..Len(res'.arg.items) : NotAByte(res'.arg.items[i]))
        => (res'.kind = "err" /\ objs' = objs)]_<<res, objs>>

\* The operator a name of the class stands for.
OperatorOf(name) ==
    CASE name = "__eq__" -> "=="
      [] name = "__lt__" -> "<"
      [] name = "__le__" -> "<="
      [] name = "__gt__" -> ">"
      [] name = "__ge__" -> ">="

\* The name each function of the class was registered under, when its
\* answer is in res.
NameOf(op) == CHOOSE n \in CompareNames : extend_class[n] = op

BothBytes == isinstance_bytes(res.args[1]) /\ isinstance_bytes(res.args[2])

\* C7: eq of two bytes objects is true exactly when their byte sequences are
\* identical, and eq of a bytes object and an object of another class is
\* false, never a failure.
C7_EqualityIsTotal ==
    (res.op = "eq" /\ isinstance_bytes(res.args[1])) =>
        /\ res.kind = "ok"
        /\ res.bool = (/\ isinstance_bytes(res.args[2])
                       /\ res.args[1].value = res.args[2].value)

\* C7 witness: eq has answered false for two bytes objects of the same
\* length.
C7_Witness ==
    /\ res.op = "eq" /\ BothBytes /\ res.kind = "ok" /\ ~res.bool
    /\ Len(res.args[1].value) = Len(res.args[2].value)
    /\ Len(res.args[1].value) > 0

\* a sorts strictly before b, byte-wise: at the first index where they
\* differ a has the smaller byte, or a is a proper prefix of b.
LexLess(a, b) ==
    \E k \in 0..Min(Len(a), Len(b)) :
        /\ \A i \in 1..k : a[i] = b[i]
        /\ \/ k = Len(a) /\ k < Len(b)
           \/ k < Len(a) /\ k < Len(b) /\ a[k + 1] < b[k + 1]

LexHolds(operator, a, b) ==
    CASE operator = "<"  -> LexLess(a, b)
      [] operator = "<=" -> LexLess(a, b) \/ a = b
      [] operator = ">"  -> LexLess(b, a)
      [] operator = ">=" -> LexLess(b, a) \/ a = b

\* C8: for two bytes objects, the function registered as __lt__, __le__,
\* __gt__ or __ge__ returns the byte-wise lexicographic <, <=, > or >= of
\* the two sequences.
C8_OrderingIsLexicographic ==
    (res.op \in {"lt", "le", "gt", "ge"} /\ BothBytes) =>
        /\ res.kind = "ok"
        /\ res.bool = LexHolds(OperatorOf(NameOf(res.op)),
                               res.args[1].value, res.args[2].value)

\* C8 witness: an ordering has answered true for a sequence and a proper
\* prefix of it.
C8_Witness ==
    /\ res.op \in {"gt", "ge"} /\ BothBytes /\ res.kind = "ok" /\ res.bool
    /\ Len(res.args[2].value) > 0
    /\ Len(res.args[1].value) > Len(res.args[2].value)
    /\ SubSeq(res.args[1].value, 1, Len(res.args[2].value))
           = res.args[2].value

\* C9: each of the four orderings, applied to a bytes object and an object
\* of another class, fails with a type error and returns no boolean.
C9_OrderingIsPartial ==
    (/\ res.op \in {"lt", "le", "gt", "ge"}
     /\ isinstance_bytes(res.args[1]) /\ ~isinstance_bytes(res.args[2]))
        => (res.kind = "err" /\ res.err = "TypeError"
              /\ res.msg = "Cannot compare")

\* C9 witness: le of a bytes object and an int has failed.
C9_Witness ==
    /\ res.op = "le" /\ isinstance_bytes(res.args[1])
    /\ res.args[2].cls = "int" /\ res.kind = "err"

\* C10: when an ordering fails for an operand of another class, the message
\* names the operator that was attempted.
C10_MessageNamesOperator ==
    (/\ res.op \in {"lt", "le", "gt", "ge"}
     /\ res.kind = "err" /\ res.msg = "Cannot compare")
        => res.using = OperatorOf(NameOf(res.op))

----------------------------------------------------------------------------
(* Claims about hash, repr and len *)

EncodeChar(c) ==
    IF c < 128 THEN <<c>>
    ELSE IF c < 2048 THEN <<192 + (c \div 64), 128 + (c % 64)>>
    ELSE IF c < 65536
         THEN <<224 + (c \div 4096), 128 + ((c \div 64) % 64),
                128 + (c % 64)>>
    ELSE <<240 + (c \div 262144), 128 + ((c \div 4096) % 64),
           128 + ((c \div 64) % 64), 128 + (c % 64)>>

RECURSIVE EncodeText(_)
EncodeText(chars) ==
    IF chars = <<>> THEN <<>>
    ELSE EncodeChar(Head(chars)) \o EncodeText(Tail(chars))

\* h, i and e-acute, and the byte sequences that are texts of them.
CharSample == {104, 105, 233}
ValidTexts == {EncodeText(chars) : chars \in SeqsUpTo(CharSample, MaxLen)}

ReprOf(s) == res.op = "repr" /\ res.args = <<PyBytes_new(s)>>

\* C12: the repr of a bytes object whose content is text is b', the text
\* and ': the characters between the quotes, written as bytes again, are the
\* content; the repr of the bytes 104, 105 holds hi.
C12_ReprRoundTrips ==
    \A s \in ValidTexts :
        ReprOf(s) =>
            /\ res.kind = "ok"
            /\ Len(res.str) >= 3
            /\ SubSeq(res.str, 1, 2) = <<98, 39>>
            /\ res.str[Len(res.str)] = 39
            /\ EncodeText(SubSeq(res.str, 3, Len(res.str) - 1)) = s
            /\ s = <<104, 105>> => res.str = <<98, 39, 104, 105, 39>>

\* The repr of the two bytes of e-acute has been taken: one character
\* between the quotes.
C12_Witness ==
    /\ ReprOf(<<195, 169>>)
    /\ res.kind = "ok"
    /\ res.str = <<98, 39, 233, 39>>

\* C13: the repr of a bytes object whose content is no text returns a
\* failure and does not panic.
C13_ReprFailsCleanly ==
    \A s \in SeqsUpTo(TextSample, MaxLen) :
        (ReprOf(s) /\ (\E i \in 1..Len(s) : s[i] = 255)) => res.kind = "err"

----------------------------------------------------------------------------
(* Claims about iterators *)

Iterators == 1..Len(iters)

\* What iterator i has yielded is the first bytes of its object, each at its
\* index, as many as its cursor says, and no more than there are.
InOrder(i) ==
    /\ position_get(i) <= Len(Iterated(i))
    /\ Len(iters[i].out) = position_get(i)
    /\ \A k \in 1..Len(iters[i].out) :
          iters[i].out[k] = [index |-> k - 1, value |-> Iterated(i)[k]]

\* The step is an advance of iterator i.
Advanced(i) ==
    /\ Len(iters') = Len(iters)
    /\ res'.op = "next" /\ res'.it = i
    /\ res' # res \/ cells' # cells

\* C14: an iterator over n bytes starts with its cursor at 0; advancing it
\* yields the bytes in index order, n of them, the value handed out being the
\* byte at the cursor; once the cursor is n every advance reports exhaustion;
\* the cursor never exceeds n and never goes back.
C14_IterationInOrder ==
    /\ [](\A i \in Iterators : InOrder(i))
    /\ [](res.op = "iter" => position_get(res.it) = 0)
    /\ [](res.op = "next" =>
            IF res.kind = "ok"
            THEN res.int = iters[res.it].out[position_get(res.it)].value
            ELSE position_get(res.it) = Len(Iterated(res.it)))
    /\ [][\A i \in Iterators :
            /\ cells'[iters'[i].position] >= position_get(i)
            /\ Advanced(i) =>
                 IF position_get(i) < Len(Iterated(i))
                 THEN /\ res'.kind = "ok"
                      /\ cells'[iters'[i].position] = position_get(i) + 1
                 ELSE res'.kind = "stop"]_vars

\* An iterator over two different bytes has yielded both and has reported
\* exhaustion.
C14_Witness ==
    /\ res.op = "next" /\ res.kind = "stop"
    /\ Iterated(res.it) = <<0, ByteLimit - 1>>
    /\ iters[res.it].out =
           <<[index |-> 0, value |-> 0], [index |-> 1, value |-> ByteLimit - 1]>>

\* C15: every iter call makes a new iterator with a cursor of its own at 0
\* and leaves the iterators that exist as they are; an advance of one
\* iterator leaves the cursor and the yields of every other as they are.
C15_IndependentCursors ==
    /\ [](\A i, j \in Iterators : i # j => iters[i].position # iters[j].position)
    /\ [][/\ Len(iters') > Len(iters) =>
               /\ cells'[iters'[Len(iters')].position] = 0
               /\ \A i \in Iterators :
                     iters'[i] = iters[i]
                     /\ cells'[iters'[i].position] = position_get(i)
           /\ \A i, j \in Iterators :
                 (Advanced(j) /\ i # j) =>
                     iters'[i] = iters[i]
                     /\ cells'[iters'[i].position] = position_get(i)]_vars

\* Two iterators over the same two bytes: the first has yielded both, the
\* second, made after that, has yielded the first one only.
C15_Witness ==
    /\ Len(iters) = 2
    /\ Len(Iterated(1)) = 2 /\ Iterated(2) = Iterated(1)
    /\ position_get(1) = 2 /\ position_get(2) = 1
    /\ res.op = "next" /\ res.it = 2

\* C18: a thread that has read the cursor of an iterator and not yet written
\* it holds the guard of a synchronization cell; no iterator hands out an
\* index twice; and no increment is lost: when no thread is in the middle of
\* an advance, the cursor counts the yields.
C18_CursorUnderGuard ==
    /\ \A t \in Requesters : adv[t] # NoAdvance => cell.guard[t] # "none"
    /\ \A i \in Iterators :
          /\ \A k, l \in 1..Len(iters[i].out) :
                k # l => iters[i].out[k].index # iters[i].out[l].index
          /\ (\A t \in Requesters : adv[t] = NoAdvance)
                => position_get(i) = Len(iters[i].out)

----------------------------------------------------------------------------
(* Claims about construction, the class table and immutability *)

\* The integers of a list of elements.
IntsOf(items) == [k \in 1..Len(items) |-> items[k].v]

\* The step is a construction.
Constructed == res'.op = "bytes_new" /\ (res' # res \/ objs' # objs)

\* C16: a construction without argument makes the empty bytes object; a
\* construction from integers in 0..255 makes the object whose bytes are
\* these integers in order; len of a bytes object is the number of its bytes,
\* and len of the object just constructed is the number of elements given.
C16_ConstructThenLen ==
    /\ [][Constructed =>
            /\ ~res'.arg.present =>
                 res'.kind = "ok" /\ objs' = objs (+) SetToBag({<<>>})
            /\ (/\ res'.arg.iterable
                 /\ \A k \in 1..Len(res'.arg.items) :
                       ~NotAByte(res'.arg.items[k])) =>
                 /\ res'.kind = "ok"
                 /\ objs' = objs (+) SetToBag({IntsOf(res'.arg.items)})]_vars
    /\ [][(/\ res.op = "bytes_new" /\ res.kind = "ok"
            /\ res'.op = "len"
            /\ res'.args = <<PyBytes_new(IntsOf(res.arg.items))>>) =>
               res'.kind = "ok" /\ res'.int = Len(res.arg.items)]_vars
    /\ [](res.op = "len" /\ res.kind = "ok" =>
            res.int = Len(get_value(res.args[1])))

\* len of an object constructed from a zero byte and a 255 has been taken.
C16_Witness ==
    /\ res.op = "len" /\ res.kind = "ok"
    /\ get_value(res.args[1]) = <<0, ByteLimit - 1>>
    /\ res.int = 2

\* The vocabulary of the class: each name with the function of its meaning.
Vocabulary ==
    {<<"__new__", "bytes_new">>, <<"__eq__", "eq">>, <<"__lt__", "lt">>,
     <<"__le__", "le">>, <<"__gt__", "gt">>, <<"__ge__", "ge">>,
     <<"__hash__", "hash">>, <<"__repr__", "repr">>, <<"__len__", "len">>,
     <<"__iter__", "iter">>, <<"__doc__", "bytes_doc">>}

Populated ==
    {<<n, bytes_type[n]>> : n \in DOMAIN bytes_type} = Vocabulary

\* C17: the table of the class is empty until init and holds exactly the
\* vocabulary, each name bound to the function of its meaning, from then on:
\* no step changes a table that is populated, and whenever a call into the
\* class has been made the table is populated.
C17_TableFrozen ==
    /\ [](bytes_type = <<>> \/ Populated)
    /\ [](res.op # "none" => Populated)
    /\ [][Populated => bytes_type' = bytes_type]_vars

\* After init an object has been made, an iterator over it advanced, and a
\* comparison dispatched.
C17_Witness ==
    /\ Populated
    /\ iters # <<>> /\ position_get(1) > 0
    /\ res.op = "eq"

\* The bytes objects among the arguments of the call whose outcome is r.
BytesArgs(r) ==
    IF r.op \in {"none", "bytes_new", "next"} THEN {}
    ELSE {r.args[k] : k \in {k \in 1..Len(r.args) : isinstance_bytes(r.args[k])}}

\* C19: no step changes the bytes or the length of an object that exists:
\* every object is there after the step with the content it had, at most one
\* object is new, the object of every iterator is the one it was, and the
\* bytes objects handed to a call are there after the call as they were
\* handed in, in whichever position.
C19_NeverMutated ==
    [][/\ objs \sqsubseteq objs'
       /\ BagCardinality(objs') <= BagCardinality(objs) + 1
       /\ \A i \in Iterators :
             /\ iters'[i].iterated_obj = iters[i].iterated_obj
             /\ BagIn(Iterated(i), objs')
       /\ \A a \in BytesArgs(res') : BagIn(get_value(a), objs')]_vars

\* An iterator over the one object, of one byte, has yielded it and reported
\* exhaustion; the object is still the one byte.
C19_Witness ==
    /\ res.op = "next" /\ res.kind = "stop"
    /\ Iterated(res.it) = <<ByteLimit - 1>>
    /\ objs = SetToBag({<<ByteLimit - 1>>})

\* The functions that check their arguments with arg_check!, and how many
\* arguments each takes.
Checked == {"eq", "ge", "gt", "le", "lt", "hash", "repr", "len"}
Takes(op) == IF op \in {"hash", "repr", "len"} THEN 1 ELSE 2

\* The call whose outcome is in res had a bytes object as receiver and the
\* right number of arguments.
WellCalled ==
    /\ Len(res.args) = Takes(res.op)
    /\ isinstance_bytes(res.args[1])

\* C20: a comparison, hash, repr or len called with a receiver that is no
\* bytes object, or with a number of arguments that is not its own, fails
\* with the argument mismatch and gives no result; whatever gives a result
\* or panics was called on a bytes object; eq in particular.
C20_ReceiverChecked ==
    res.op \in Checked =>
        /\ ~WellCalled => res = ArgErr(res.op, res.args)
        /\ res.kind \in {"ok", "panic"} => WellCalled
        /\ (res.op = "eq" /\ "bool" \in DOMAIN res) =>
               isinstance_bytes(res.args[1])

\* hash has been called on an int alone, and has failed.
C20_Witness ==
    /\ res.op = "hash"
    /\ res.args = <<[cls |-> "int", value |-> <<0>>]>>
    /\ res.kind = "err"

============================================================================
